---- MODULE Spec2Model ----
(***************************************************************************)
(* Gradientless descent trainer (src/training/gld_trainer.py).             *)
(*                                                                         *)
(* Real numbers are fixed-point integers: a value x stands for x / Unit.   *)
(* Radii, scales, parameter values and log-radii are all kept in this      *)
(* representation; random directions are small integers.                   *)
(***************************************************************************)
EXTENDS Integers, Sequences, FiniteSets, TLC

\* ---------------------------------------------------------------- bounds
\* the constructor is offered radii 0..MaxRadius and num_ball_samples
\* -1..MaxBallSamples
MaxRadius == 4
MaxBallSamples == 3
\* np.random.randint(1000000000) is narrowed to 0..NumSeeds-1
NumSeeds == 2
\* finite loss values are 0..MaxLoss
MaxLoss == 1
\* calls of lr_scheduler.step() the host of the core is followed for
MaxLrSteps == 2
\* the core is followed on trainers of 0..CoreBallSamples ball samples
CoreBallSamples == 2
\* the training loop runs with gradient_accumulation_steps in 1..MaxGas,
\* a dataloader of 0..MaxBatches batches, 1..MaxEpochs epochs, and a
\* trainer of 0..LoopBallSamples ball samples
MaxGas == 2
MaxBatches == 2
MaxEpochs == 2
LoopBallSamples == 1
\* perturb_parameters is called directly with scales -MaxScale..MaxScale
\* (zero left out) while no parameter is further than MaxDrift from its
\* initial value
MaxScale == 1
MaxDrift == 2

\* ------------------------------------------------------- representation
\* fixed-point denominator
Unit == 10000
\* terms of the series used for math.log and for 2 ** x
LogTerms == 12
ExpTerms == 14
\* ln 2 in fixed point
Ln2 == 6931

\* Python None, and an attribute that was never assigned
None == -1
Unset == -2
\* a list attribute that was never assigned
UnsetList == << Unset >>

\* loss values outside the finite range: IEEE NaN and the two infinities
NaN == 1000
PosInf == 999
NegInf == -999
LossValues == (0..MaxLoss) \cup {NaN, PosInf, NegInf}

\* a comparison that orders NaN above every other loss
LossLtNaNLast(a, b) == a < b

\* IEEE comparison of two losses: every comparison with NaN is false
LossLt(a, b) == a # NaN /\ b # NaN /\ a < b

\* math.log(num / den) for num, den > 0: the powers of two are taken out
\* of the ratio, the rest is 2 * atanh((hi-lo)/(hi+lo)) by its series
RECURSIVE AtanhSeries(_, _, _, _)
AtanhSeries(zpow, z2, k, left) ==
    IF left = 0 \/ zpow = 0 THEN 0
    ELSE (zpow \div k) + AtanhSeries((zpow * z2) \div Unit, z2, k + 2, left - 1)

RECURSIVE LogRatio(_, _)
LogRatio(hi, lo) ==
    IF hi >= 2 * lo THEN Ln2 + LogRatio(hi, 2 * lo)
    ELSE LET z == ((hi - lo) * Unit) \div (hi + lo)
         IN 2 * AtanhSeries(z, (z * z) \div Unit, 1, LogTerms)

MathLog(num, den) ==
    IF num < den THEN -LogRatio(den, num) ELSE LogRatio(num, den)

\* e ** (-x / Unit) for 0 <= x <= Unit, by its Taylor series
RECURSIVE ExpNegSeries(_, _, _, _)
ExpNegSeries(term, x, k, left) ==
    IF left = 0 \/ term = 0 THEN 0
    ELSE term + ExpNegSeries(-((term * x) \div (Unit * k)), x, k + 1, left - 1)

RECURSIVE Pow2Int(_)
Pow2Int(n) == IF n = 0 THEN 1 ELSE 2 * Pow2Int(n - 1)

\* 2 ** (-radius), radius in fixed point and of either sign
Pow2Neg(radius) ==
    LET q == radius \div Unit
        f == radius - q * Unit
        frac == ExpNegSeries(Unit, (f * Ln2) \div Unit, 1, ExpTerms)
    IN IF q >= 0 THEN frac \div Pow2Int(q) ELSE frac * Pow2Int(-q)

\* np.linspace(0, stop, num, endpoint=False).tolist()
linspace_open(stop, num) ==
    [i \in 1..num |-> ((i - 1) * stop) \div num]

\* np.linspace(0, stop, num).tolist() for num >= 0
linspace(stop, num) ==
    IF num = 0 THEN << >>
    ELSE IF num = 1 THEN << 0 >>
    ELSE [i \in 1..num |-> IF i = num THEN stop
                           ELSE ((i - 1) * stop) \div (num - 1)]

\* trial = (2 ** (-1 * radius)) * self.max_radius
TrialScale(radius, max_radius) == Pow2Neg(radius) * max_radius

\* torch.normal(mean=0, std=1) for a one-element tensor: the value the
\* global torch stream yields at position pos after torch.manual_seed(seed)
Normal(seed, pos) == (((seed + 1) * (pos + 1) + seed) % 5) - 2

\* ------------------------------------------------------------- state
VARIABLES
    requires_grad,   \* model.named_parameters(): requires_grad of each one
    data,            \* model.named_parameters(): p.data of each one
    model_training,  \* model.training (False after model.eval())
    torch_rng,       \* global torch stream: <<seed, position>>
    trainer,         \* "absent", "ready" (constructed) or "failed"
    use_gld, min_radius, max_radius, log_radius, search_space,
    best_scale,      \* self.best_scale
    gld_seed,        \* self.gld_seed (Unset until gld_step assigns it)
    losses,          \* self.losses: sequence of <<loss, seed, scale>>
    named_parameters_to_optim,  \* indices into the parameter list
    lr_steps,        \* number of lr_scheduler.step() calls
    pc,              \* position inside gld_step: idle, baseline, trials
    last_call,       \* <<operation, outcome>> of the last finished call
    ret_loss,        \* value returned by gld_step (Unset while it runs)
    entry_data,      \* p.data of every parameter when gld_step was entered
    eval_data,       \* p.data at the forward pass of each entry of losses
    step_calls,      \* number of gld_step calls so far
    updates_since_step,  \* gld_update calls since gld_step was last entered
    \* _inner_training_loop
    lpc,             \* position of the loop ("none": no loop is running)
    gradient_accumulation_steps, num_train_epochs, len_dataloader,
    epoch, step, total_batched_samples,
    global_step,     \* self.state.global_step
    should_training_stop, should_epoch_stop,   \* self.control
    train_calls,     \* calls of training_step
    optimizer_steps  \* calls of optimizer.step()

model_vars == << requires_grad, data, model_training, torch_rng >>
config_vars == << trainer, use_gld, min_radius, max_radius, log_radius,
                  search_space >>
gld_vars == << best_scale, gld_seed, losses, named_parameters_to_optim,
               lr_steps, pc, last_call, ret_loss, entry_data, eval_data,
               step_calls, updates_since_step >>
loop_vars == << lpc, gradient_accumulation_steps, num_train_epochs,
                len_dataloader, epoch, step, total_batched_samples,
                global_step, should_training_stop, should_epoch_stop,
                train_calls, optimizer_steps >>
vars == << model_vars, config_vars, gld_vars, loop_vars >>

Seeds == 0..(NumSeeds - 1)
\* the models followed: all parameters trainable, a frozen parameter
\* before a trainable one, a frozen parameter after a trainable one
ParamLayouts == { << TRUE, TRUE >>, << FALSE, TRUE >>, << TRUE, FALSE >> }
\* the <<min_radius, max_radius>> of the trainers the core and the loop are
\* followed on: distinct scales, and one scale repeated
CoreRadii == { << 1, 2 >>, << 1, 1 >> }

\* the model, and what is not the trainer's configuration, before any call
Fresh ==
    /\ requires_grad \in ParamLayouts
    /\ data = [i \in 1..Len(requires_grad) |-> i * Unit]
    /\ model_training \in BOOLEAN
    /\ torch_rng = << 0, 0 >>
    /\ gld_seed = Unset
    /\ losses = << >> /\ named_parameters_to_optim = UnsetList
    /\ lr_steps = 0 /\ pc = "idle"
    /\ ret_loss = Unset /\ entry_data = data /\ eval_data = << >>
    /\ step_calls = 0 /\ updates_since_step = 0
    /\ lpc = "none"
    /\ gradient_accumulation_steps = 1 /\ num_train_epochs = 0
    /\ len_dataloader = 0 /\ epoch = 0 /\ step = -1
    /\ total_batched_samples = 0 /\ global_step = 0
    /\ should_training_stop = FALSE /\ should_epoch_stop = FALSE
    /\ train_calls = 0 /\ optimizer_steps = 0

\* ------------------------------------------------------- construction
\* the exception GLDTrainer.__init__ raises for these arguments, or "none"
InitError(minr, maxr, n) ==
    IF minr = 0 THEN "ZeroDivisionError"          \* max_radius / min_radius
    ELSE IF maxr <= 0 THEN "ValueError"           \* math.log(0)
    ELSE IF n < 0 THEN "ValueError"               \* np.linspace(num < 0)
    ELSE "none"

\* the attributes GLDTrainer.__init__ assigns, as <<use_gld, min_radius,
\* max_radius, best_scale, log_radius, search_space>>
Constructed(use, minr, maxr, n) ==
    << use, minr, maxr, None, MathLog(maxr, minr),
       linspace(MathLog(maxr, minr), n) >>

\* no trainer has been constructed
CtorInit ==
    /\ Fresh
    /\ trainer = "absent"
    /\ use_gld = FALSE /\ min_radius = Unset /\ max_radius = Unset
    /\ log_radius = Unset /\ search_space = << >>
    /\ best_scale = Unset
    /\ last_call = << "none", "none" >>

GLDTrainer_init(use, minr, maxr, n) ==
    /\ trainer = "absent"
    /\ IF InitError(minr, maxr, n) = "none"
       THEN /\ trainer' = "ready"
            /\ use_gld' = Constructed(use, minr, maxr, n)[1]
            /\ min_radius' = Constructed(use, minr, maxr, n)[2]
            /\ max_radius' = Constructed(use, minr, maxr, n)[3]
            /\ best_scale' = Constructed(use, minr, maxr, n)[4]
            /\ log_radius' = Constructed(use, minr, maxr, n)[5]
            /\ search_space' = Constructed(use, minr, maxr, n)[6]
            /\ last_call' = << "__init__", "returned" >>
       ELSE /\ trainer' = "failed"
            /\ last_call' = << "__init__", InitError(minr, maxr, n) >>
            /\ UNCHANGED << use_gld, min_radius, max_radius, best_scale,
                            log_radius, search_space >>
    /\ UNCHANGED << model_vars, gld_seed, losses, named_parameters_to_optim,
                    lr_steps, pc, ret_loss, entry_data, eval_data,
                    step_calls, updates_since_step, loop_vars >>

\* a trainer constructed with these arguments, before any other call
ConstructedWith(use, minr, maxr, n) ==
    /\ Fresh
    /\ trainer = "ready"
    /\ use_gld = Constructed(use, minr, maxr, n)[1]
    /\ min_radius = Constructed(use, minr, maxr, n)[2]
    /\ max_radius = Constructed(use, minr, maxr, n)[3]
    /\ best_scale = Constructed(use, minr, maxr, n)[4]
    /\ log_radius = Constructed(use, minr, maxr, n)[5]
    /\ search_space = Constructed(use, minr, maxr, n)[6]
    /\ last_call = << "__init__", "returned" >>

\* the trainers the core is followed on
Init ==
    \E r \in CoreRadii, n \in 0..CoreBallSamples :
        ConstructedWith(TRUE, r[1], r[2], n)

\* the trainers the training loop is followed on
LoopInit ==
    \E use \in BOOLEAN, n \in 0..LoopBallSamples :
        ConstructedWith(use, 1, 2, n)

\* _inner_training_loop, "Get model to optimize": the trainable parameters
\* in the order of model.named_parameters()
RECURSIVE TrainableFrom(_, _)
TrainableFrom(rg, i) ==
    IF i > Len(rg) THEN << >>
    ELSE (IF rg[i] THEN << i >> ELSE << >>) \o TrainableFrom(rg, i + 1)

collect_parameters ==
    /\ trainer = "ready"
    /\ named_parameters_to_optim = UnsetList
    /\ named_parameters_to_optim' = TrainableFrom(requires_grad, 1)
    /\ UNCHANGED << model_vars, config_vars, best_scale, gld_seed, losses,
                    lr_steps, pc, last_call, ret_loss, entry_data,
                    eval_data, step_calls, updates_since_step >>

\* ------------------------------------------------------ perturbation
\* the sweep of perturb_parameters over self.named_parameters_to_optim from
\* its k-th entry on: every parameter draws its direction from the stream
\* and moves by scale * v_k; yields the new <<data, stream>>
RECURSIVE PerturbSweep(_, _, _, _, _)
PerturbSweep(d, rng, opt, k, scale) ==
    IF k > Len(opt) THEN << d, rng >>
    ELSE LET v_k == Normal(rng[1], rng[2])
             i == opt[k]
         IN PerturbSweep([d EXCEPT ![i] = d[i] + scale * v_k],
                         << rng[1], rng[2] + 1 >>, opt, k + 1, scale)

\* perturb_parameters without torch.manual_seed: the sweep draws from
\* wherever the stream stands
perturb_parameters_unseeded(d, rng, opt, scale, seed) ==
    PerturbSweep(d, rng, opt, 1, scale)

\* perturb_parameters that leaves the stream where it stands when the
\* stream was last seeded with the same seed
perturb_parameters_continuing(d, rng, opt, scale, seed) ==
    PerturbSweep(d, IF rng[1] = seed THEN rng ELSE << seed, 0 >>, opt, 1,
                 scale)

\* perturb_parameters sweeping the list from its end when it undoes
perturb_parameters_backward(d, rng, opt, scale, seed) ==
    PerturbSweep(d, << seed, 0 >>,
                 IF scale < 0
                 THEN [k \in 1..Len(opt) |-> opt[Len(opt) + 1 - k]]
                 ELSE opt,
                 1, scale)

\* perturb_parameters(scale, seed): torch.manual_seed(seed), then the sweep
perturb_parameters(d, rng, opt, scale, seed) ==
    PerturbSweep(d, << seed, 0 >>, opt, 1, scale)

\* ----------------------------------------------------------- gld_step
\* gld_forward on parameters d, given the trials already evaluated in this
\* step: compute_loss belongs to the host model and is a function of the
\* parameters and the batch, so equal parameters give the equal loss
ForwardLosses(d) ==
    { l \in LossValues :
        \A j \in 1..Len(losses) : eval_data[j] = d => losses[j][1] = l }

\* gld_step that keeps the list of the step before: self.losses is not
\* assigned at entry
gld_step_enter_appending(seed) ==
    /\ pc = "idle"
    /\ losses' = losses
    /\ eval_data' = eval_data
    /\ gld_seed' = seed
    /\ entry_data' = data
    /\ step_calls' = step_calls + 1
    /\ updates_since_step' = 0
    /\ pc' = "baseline"
    /\ ret_loss' = Unset
    /\ last_call' = << "gld_step", "running" >>
    /\ UNCHANGED << model_vars, config_vars, best_scale,
                    named_parameters_to_optim, lr_steps >>

\* gld_step, up to the baseline forward pass:
\* self.losses = []; self.gld_seed = np.random.randint(...)
gld_step_enter(seed) ==
    /\ pc = "idle"
    /\ losses' = << >>
    /\ eval_data' = << >>
    /\ gld_seed' = seed
    /\ entry_data' = data
    /\ step_calls' = step_calls + 1
    /\ updates_since_step' = 0
    /\ pc' = "baseline"
    /\ ret_loss' = Unset
    /\ last_call' = << "gld_step", "running" >>
    /\ UNCHANGED << model_vars, config_vars, best_scale,
                    named_parameters_to_optim, lr_steps >>

\* loss = self.gld_forward(...); self.losses.append((loss, seed, None))
gld_step_baseline(loss) ==
    /\ pc = "baseline"
    /\ loss \in ForwardLosses(data)
    /\ model_training' = FALSE
    /\ losses' = Append(losses, << loss, gld_seed, None >>)
    /\ eval_data' = Append(eval_data, data)
    /\ pc' = "trials"
    /\ UNCHANGED << requires_grad, data, torch_rng, config_vars, best_scale,
                    gld_seed, named_parameters_to_optim, lr_steps, last_call,
                    ret_loss, entry_data, step_calls, updates_since_step,
                    loop_vars >>

\* the baseline forward pass raises: the exception leaves gld_step
gld_step_baseline_raises ==
    /\ pc = "baseline"
    /\ model_training' = FALSE
    /\ pc' = "idle"
    /\ last_call' = << "gld_step", "EvaluationError" >>
    /\ UNCHANGED << requires_grad, data, torch_rng, config_vars, best_scale,
                    gld_seed, losses, named_parameters_to_optim, lr_steps,
                    ret_loss, entry_data, eval_data, step_calls,
                    updates_since_step, loop_vars >>

\* the radius and the scale of the trial gld_step runs next
NextRadius == search_space[Len(losses)]
NextScale == TrialScale(NextRadius, max_radius)

\* do_trial for the next radius of self.search_space: a fresh seed, the
\* perturbation, the forward pass, the opposite perturbation
do_trial(seed, loss) ==
    /\ pc = "trials"
    /\ Len(losses) <= Len(search_space)
    /\ LET opt == named_parameters_to_optim
           there == perturb_parameters(data, torch_rng, opt, NextScale, seed)
           back == perturb_parameters(there[1], there[2], opt, -NextScale,
                                      seed)
       IN /\ loss \in ForwardLosses(there[1])
          /\ gld_seed' = seed
          /\ losses' = Append(losses, << loss, seed, NextScale >>)
          /\ eval_data' = Append(eval_data, there[1])
          /\ data' = back[1]
          /\ torch_rng' = back[2]
    /\ model_training' = FALSE
    /\ UNCHANGED << requires_grad, config_vars, best_scale,
                    named_parameters_to_optim, lr_steps, pc, last_call,
                    ret_loss, entry_data, step_calls, updates_since_step,
                    loop_vars >>

\* do_trial whose forward pass raises: the exception leaves do_trial and
\* gld_step before the opposite perturbation is reached
do_trial_raises(seed) ==
    /\ pc = "trials"
    /\ Len(losses) <= Len(search_space)
    /\ LET there == perturb_parameters(data, torch_rng,
                                       named_parameters_to_optim, NextScale,
                                       seed)
       IN /\ gld_seed' = seed
          /\ data' = there[1]
          /\ torch_rng' = there[2]
    /\ model_training' = FALSE
    /\ pc' = "idle"
    /\ last_call' = << "gld_step", "EvaluationError" >>
    /\ UNCHANGED << requires_grad, config_vars, best_scale, losses,
                    named_parameters_to_optim, lr_steps, ret_loss,
                    entry_data, eval_data, step_calls, updates_since_step,
                    loop_vars >>

\* min(self.losses, key=lambda x: x[0]): the index of the first entry that
\* no later scan step replaces (an entry replaces the current minimum only
\* when its loss compares strictly below it)
\* the scan with a non-strict comparison: a later entry of equal loss
\* replaces the current minimum
RECURSIVE MinIndexFromLast(_, _, _)
MinIndexFromLast(ls, best, k) ==
    IF k > Len(ls) THEN best
    ELSE MinIndexFromLast(ls, IF LossLt(ls[best][1], ls[k][1]) THEN best
                              ELSE k, k + 1)

RECURSIVE MinIndexFrom(_, _, _)
MinIndexFrom(ls, best, k) ==
    IF k > Len(ls) THEN best
    ELSE MinIndexFrom(ls, IF LossLt(ls[k][1], ls[best][1]) THEN k ELSE best,
                      k + 1)

MinIndex(ls) == MinIndexFrom(ls, 1, 2)

\* gld_step that keeps a perturbed winner already stored: the seed and the
\* scale of an earlier step stay until a commit, which never clears them
gld_step_select_keeping_first ==
    /\ pc = "trials"
    /\ Len(losses) = Len(search_space) + 1
    /\ LET lowest_loss == losses[MinIndex(losses)]
       IN /\ ret_loss' = lowest_loss[1]
          /\ gld_seed' = IF best_scale # None THEN gld_seed
                         ELSE lowest_loss[2]
          /\ best_scale' = IF best_scale # None THEN best_scale
                           ELSE lowest_loss[3]
    /\ pc' = "idle"
    /\ last_call' = << "gld_step", "returned" >>
    /\ UNCHANGED << model_vars, config_vars, losses,
                    named_parameters_to_optim, lr_steps, entry_data,
                    eval_data, step_calls, updates_since_step, loop_vars >>

\* gld_step that returns the lowest loss without unpacking the seed: the
\* seed of the last do_trial stays in self.gld_seed
gld_step_select_keeping_seed ==
    /\ pc = "trials"
    /\ Len(losses) = Len(search_space) + 1
    /\ LET lowest_loss == losses[MinIndex(losses)]
       IN /\ ret_loss' = lowest_loss[1]
          /\ gld_seed' = gld_seed
          /\ best_scale' = lowest_loss[3]
    /\ pc' = "idle"
    /\ last_call' = << "gld_step", "returned" >>
    /\ UNCHANGED << model_vars, config_vars, losses,
                    named_parameters_to_optim, lr_steps, entry_data,
                    eval_data, step_calls, updates_since_step, loop_vars >>

\* lowest_loss = min(...); loss, self.gld_seed, self.best_scale = lowest_loss
gld_step_select ==
    /\ pc = "trials"
    /\ Len(losses) = Len(search_space) + 1
    /\ LET lowest_loss == losses[MinIndex(losses)]
       IN /\ ret_loss' = lowest_loss[1]
          /\ gld_seed' = lowest_loss[2]
          /\ best_scale' = lowest_loss[3]
    /\ pc' = "idle"
    /\ last_call' = << "gld_step", "returned" >>
    /\ UNCHANGED << model_vars, config_vars, losses,
                    named_parameters_to_optim, lr_steps, entry_data,
                    eval_data, step_calls, updates_since_step, loop_vars >>

\* --------------------------------------------------------- gld_update
\* for n, p in self.model.named_parameters(): the parameters the sweep of
\* gld_update visits, as indices into the parameter list
UpdateSweepList == [i \in 1..Len(data) |-> i]

\* the exception gld_update raises in the current state, or "none":
\* self.gld_seed is read first; torch.normal is called with the keyword
\* type=, which it does not accept, for the first parameter of the model
\* when self.best_scale is not None
\* gld_update on a trainer whose constructor had assigned self.gld_seed
UpdateErrorSeedPreset ==
    IF best_scale # None /\ Len(data) > 0 THEN "TypeError" ELSE "none"

UpdateError ==
    IF gld_seed = Unset THEN "AttributeError"
    ELSE IF best_scale # None /\ Len(data) > 0 THEN "TypeError"
    ELSE "none"

\* lr_scheduler.step() moved into the branch that perturbs
UpdateLrStepsPerturbedOnly ==
    IF UpdateError = "none" /\ best_scale # None THEN 1 ELSE 0

\* gld_update stepping the schedule once per parameter of the model
UpdateLrStepsPerParameter == IF UpdateError = "none" THEN Len(data) ELSE 0

\* the calls of self.lr_scheduler.step() one gld_update makes: the last
\* statement, reached when nothing was raised
UpdateLrSteps == IF UpdateError = "none" THEN 1 ELSE 0

gld_update ==
    /\ pc = "idle"
    /\ trainer = "ready"
    /\ last_call' = << "gld_update",
                       IF UpdateError = "none" THEN "returned"
                       ELSE UpdateError >>
    /\ torch_rng' = IF UpdateError = "AttributeError" THEN torch_rng
                    ELSE << gld_seed, 0 >>
    /\ lr_steps' = lr_steps + UpdateLrSteps
    /\ updates_since_step' = IF updates_since_step < 2
                              THEN updates_since_step + 1 ELSE 2
    /\ UNCHANGED << requires_grad, data, model_training, config_vars,
                    best_scale, gld_seed, losses, named_parameters_to_optim,
                    pc, ret_loss, entry_data, eval_data, step_calls >>

\* ------------------------------------------------- a host of the core
\* the host runs the training set-up, then calls commit any number of times
\* and estimate once, in any order
HostSetUp == collect_parameters /\ UNCHANGED loop_vars

HostStep ==
    /\ named_parameters_to_optim # UnsetList
    /\ step_calls = 0
    /\ \E seed \in Seeds : gld_step_enter(seed)
    /\ UNCHANGED loop_vars

HostUpdate ==
    /\ named_parameters_to_optim # UnsetList
    /\ lr_steps < MaxLrSteps
    /\ gld_update
    /\ UNCHANGED loop_vars

Next ==
    \/ HostSetUp
    \/ HostStep
    \/ \E loss \in LossValues : gld_step_baseline(loss)
    \/ gld_step_baseline_raises
    \/ \E seed \in Seeds, loss \in LossValues : do_trial(seed, loss)
    \/ \E seed \in Seeds : do_trial_raises(seed)
    \/ gld_step_select
    \/ HostUpdate

Spec == Init /\ [][Next]_vars

\* ------------------------------------ perturb_parameters called directly
PerturbScales == { k * Unit : k \in ((-MaxScale)..MaxScale) \ {0} }

\* the host calls self.perturb_parameters(scale, seed); seed None stands
\* for the default, which reads self.gld_seed. last_call keeps the
\* arguments and the parameters the call started from
HostPerturb(scale, seed) ==
    /\ pc = "idle"
    /\ trainer = "ready"
    /\ named_parameters_to_optim # UnsetList
    /\ \A i \in 1..Len(data) :
          /\ data[i] - i * Unit <= MaxDrift * Unit
          /\ i * Unit - data[i] <= MaxDrift * Unit
    /\ IF seed = None /\ gld_seed = Unset
       THEN /\ last_call' = << "perturb_parameters", "AttributeError" >>
            /\ UNCHANGED << data, torch_rng >>
       ELSE LET there == perturb_parameters(data, torch_rng,
                             named_parameters_to_optim, scale,
                             IF seed = None THEN gld_seed ELSE seed)
            IN /\ data' = there[1]
               /\ torch_rng' = there[2]
               /\ last_call' = << "perturb_parameters", "returned", scale,
                                  seed, data >>
    /\ UNCHANGED << requires_grad, model_training, config_vars, best_scale,
                    gld_seed, losses, named_parameters_to_optim, lr_steps,
                    pc, ret_loss, entry_data, eval_data, step_calls,
                    updates_since_step, loop_vars >>

PerturbNext ==
    \/ HostSetUp
    \/ \E scale \in PerturbScales, seed \in Seeds \cup {None} :
         HostPerturb(scale, seed)

PerturbSpec == Init /\ [][PerturbNext]_vars

\* the constructor on every offered argument
CtorNext ==
    \E use \in BOOLEAN, minr \in 0..MaxRadius, maxr \in 0..MaxRadius,
       n \in (-1)..MaxBallSamples : GLDTrainer_init(use, minr, maxr, n)

CtorSpec == CtorInit /\ [][CtorNext]_vars

\* the constructor on every offered argument, then the set-up and direct
\* calls of perturb_parameters on the trainer it made
ConfigNext ==
    \/ CtorNext
    \/ HostSetUp
    \/ \E scale \in PerturbScales, seed \in Seeds \cup {None} :
         HostPerturb(scale, seed)

ConfigSpec == CtorInit /\ [][ConfigNext]_vars

\* ------------------------------------------- _inner_training_loop
\* the loop is followed for a dataloader with a length, without max_steps
\* and without resuming from a checkpoint; callbacks may raise the two stop
\* flags of self.control wherever the loop hands control to them

\* the set-up up to "Train!": the arguments, the trainable parameters, a
\* fresh TrainerState
loop_setup(gas, len, epochs) ==
    /\ lpc = "none"
    /\ collect_parameters
    /\ gradient_accumulation_steps' = gas
    /\ len_dataloader' = len
    /\ num_train_epochs' = epochs
    /\ epoch' = 0 /\ total_batched_samples' = 0 /\ global_step' = 0
    /\ should_training_stop' = FALSE
    /\ lpc' = "epoch"
    /\ UNCHANGED << step, should_epoch_stop, train_calls, optimizer_steps >>

\* for epoch in range(epochs_trained, num_train_epochs): ... step = -1
loop_epoch_begin ==
    /\ lpc = "epoch"
    /\ IF epoch < num_train_epochs
       THEN /\ step' = -1
            /\ should_epoch_stop' = FALSE
            /\ lpc' = "batch"
       ELSE /\ lpc' = "done"
            /\ UNCHANGED << step, should_epoch_stop >>
    /\ UNCHANGED << model_vars, config_vars, gld_vars,
                    gradient_accumulation_steps, num_train_epochs,
                    len_dataloader, epoch, total_batched_samples,
                    global_step, should_training_stop, train_calls,
                    optimizer_steps >>

\* for step, inputs in enumerate(epoch_iterator), a batch is left, use_gld:
\* tr_loss_step = self.gld_step(model, inputs)
loop_gld_step ==
    /\ lpc = "batch"
    /\ step + 1 < len_dataloader
    /\ use_gld
    /\ step' = step + 1
    /\ total_batched_samples' = total_batched_samples + 1
    /\ \E seed \in Seeds : gld_step_enter(seed)
    /\ lpc' = "in_step"
    /\ UNCHANGED << gradient_accumulation_steps, num_train_epochs,
                    len_dataloader, epoch, global_step,
                    should_training_stop, should_epoch_stop, train_calls,
                    optimizer_steps >>

\* the same without use_gld: tr_loss_step = self.training_step(model, inputs)
loop_training_step ==
    /\ lpc = "batch"
    /\ step + 1 < len_dataloader
    /\ ~use_gld
    /\ step' = step + 1
    /\ total_batched_samples' = total_batched_samples + 1
    /\ train_calls' = train_calls + 1
    /\ model_training' = TRUE
    /\ lpc' = "stepped"
    /\ UNCHANGED << requires_grad, data, torch_rng, config_vars, gld_vars,
                    gradient_accumulation_steps, num_train_epochs,
                    len_dataloader, epoch, global_step,
                    should_training_stop, should_epoch_stop,
                    optimizer_steps >>

\* the iterator of the epoch has no batch left
loop_iterator_end ==
    /\ lpc = "batch"
    /\ step + 1 >= len_dataloader
    /\ lpc' = "epoch_end"
    /\ UNCHANGED << model_vars, config_vars, gld_vars,
                    gradient_accumulation_steps, num_train_epochs,
                    len_dataloader, epoch, step, total_batched_samples,
                    global_step, should_training_stop, should_epoch_stop,
                    train_calls, optimizer_steps >>

\* an exception of gld_step leaves the loop
loop_step_raised ==
    /\ lpc = "in_step"
    /\ pc = "idle"
    /\ last_call = << "gld_step", "EvaluationError" >>
    /\ lpc' = "raised"
    /\ UNCHANGED << model_vars, config_vars, gld_vars,
                    gradient_accumulation_steps, num_train_epochs,
                    len_dataloader, epoch, step, total_batched_samples,
                    global_step, should_training_stop, should_epoch_stop,
                    train_calls, optimizer_steps >>

\* the step has returned a loss
LoopStepDone ==
    \/ lpc = "in_step" /\ pc = "idle"
                       /\ last_call = << "gld_step", "returned" >>
    \/ lpc = "stepped"

\* the condition under which the batch ends an accumulation window
AccumulationBoundary ==
    \/ total_batched_samples % gradient_accumulation_steps = 0
    \/ /\ len_dataloader <= gradient_accumulation_steps
       /\ step + 1 = len_dataloader

\* the batch loop without its break
AfterBatchWithoutBreak(epoch_stop, training_stop) == "batch"

\* if self.control.should_epoch_stop or self.control.should_training_stop:
\*     break
AfterBatch(epoch_stop, training_stop) ==
    IF epoch_stop \/ training_stop THEN "epoch_end" ELSE "batch"

\* a window ends, use_gld: self.gld_update(); global_step += 1; on_step_end
loop_gld_commit ==
    /\ LoopStepDone
    /\ AccumulationBoundary
    /\ use_gld
    /\ gld_update
    /\ IF UpdateError = "none"
       THEN /\ global_step' = global_step + 1
            /\ \E es \in BOOLEAN, ts \in BOOLEAN :
                 /\ should_epoch_stop' = (should_epoch_stop \/ es)
                 /\ should_training_stop' = (should_training_stop \/ ts)
                 /\ lpc' = AfterBatch(should_epoch_stop \/ es,
                                      should_training_stop \/ ts)
       ELSE /\ lpc' = "raised"
            /\ UNCHANGED << global_step, should_epoch_stop,
                            should_training_stop >>
    /\ UNCHANGED << gradient_accumulation_steps, num_train_epochs,
                    len_dataloader, epoch, step, total_batched_samples,
                    train_calls, optimizer_steps >>

\* the optimizer branch taken whatever use_gld is
loop_optimizer_step_any_mode ==
    /\ LoopStepDone
    /\ AccumulationBoundary
    /\ optimizer_steps' = optimizer_steps + 1
    /\ \E optimizer_was_run \in BOOLEAN :
         lr_steps' = lr_steps + (IF optimizer_was_run THEN 1 ELSE 0)
    /\ global_step' = global_step + 1
    /\ \E es \in BOOLEAN, ts \in BOOLEAN :
         /\ should_epoch_stop' = (should_epoch_stop \/ es)
         /\ should_training_stop' = (should_training_stop \/ ts)
         /\ lpc' = AfterBatch(should_epoch_stop \/ es,
                              should_training_stop \/ ts)
    /\ UNCHANGED << model_vars, config_vars, best_scale, gld_seed, losses,
                    named_parameters_to_optim, pc, last_call, ret_loss,
                    entry_data, eval_data, step_calls, updates_since_step,
                    gradient_accumulation_steps, num_train_epochs,
                    len_dataloader, epoch, step, total_batched_samples,
                    train_calls >>

\* a window ends, no use_gld: clipping, optimizer.step(), lr_scheduler.step()
\* when the optimizer ran, model.zero_grad(); global_step += 1; on_step_end
loop_optimizer_step ==
    /\ LoopStepDone
    /\ AccumulationBoundary
    /\ ~use_gld
    /\ optimizer_steps' = optimizer_steps + 1
    /\ \E optimizer_was_run \in BOOLEAN :
         lr_steps' = lr_steps + (IF optimizer_was_run THEN 1 ELSE 0)
    /\ global_step' = global_step + 1
    /\ \E es \in BOOLEAN, ts \in BOOLEAN :
         /\ should_epoch_stop' = (should_epoch_stop \/ es)
         /\ should_training_stop' = (should_training_stop \/ ts)
         /\ lpc' = AfterBatch(should_epoch_stop \/ es,
                              should_training_stop \/ ts)
    /\ UNCHANGED << model_vars, config_vars, best_scale, gld_seed, losses,
                    named_parameters_to_optim, pc, last_call, ret_loss,
                    entry_data, eval_data, step_calls, updates_since_step,
                    gradient_accumulation_steps, num_train_epochs,
                    len_dataloader, epoch, step, total_batched_samples,
                    train_calls >>

\* the batch does not end a window: on_substep_end
loop_substep_end ==
    /\ LoopStepDone
    /\ ~AccumulationBoundary
    /\ \E es \in BOOLEAN, ts \in BOOLEAN :
         /\ should_epoch_stop' = (should_epoch_stop \/ es)
         /\ should_training_stop' = (should_training_stop \/ ts)
         /\ lpc' = AfterBatch(should_epoch_stop \/ es,
                              should_training_stop \/ ts)
    /\ UNCHANGED << model_vars, config_vars, gld_vars,
                    gradient_accumulation_steps, num_train_epochs,
                    len_dataloader, epoch, step, total_batched_samples,
                    global_step, train_calls, optimizer_steps >>

\* after the batches of the epoch: an epoch without a batch stops the
\* training; on_epoch_end; leave the loop when training is to stop
loop_epoch_end ==
    /\ lpc = "epoch_end"
    /\ \E ts \in BOOLEAN :
         LET stop == should_training_stop \/ step < 0 \/ ts
         IN /\ should_training_stop' = stop
            /\ IF stop THEN lpc' = "done" /\ UNCHANGED epoch
               ELSE lpc' = "epoch" /\ epoch' = epoch + 1
    /\ UNCHANGED << model_vars, config_vars, gld_vars,
                    gradient_accumulation_steps, num_train_epochs,
                    len_dataloader, step, total_batched_samples,
                    global_step, should_epoch_stop, train_calls,
                    optimizer_steps >>

\* the losses the forward pass yields in the loop
LoopLossValues == 0..MaxLoss

LoopStart ==
    \E gas \in 1..MaxGas, len \in 0..MaxBatches, epochs \in 1..MaxEpochs :
        loop_setup(gas, len, epochs)

LoopNext ==
    \/ LoopStart
    \/ loop_epoch_begin
    \/ loop_gld_step
    \/ loop_training_step
    \/ loop_iterator_end
    \/ \E loss \in LoopLossValues : gld_step_baseline(loss)
    \/ gld_step_baseline_raises
    \/ \E seed \in Seeds, loss \in LoopLossValues : do_trial(seed, loss)
    \/ \E seed \in Seeds : do_trial_raises(seed)
    \/ gld_step_select
    \/ loop_step_raised
    \/ loop_gld_commit
    \/ loop_optimizer_step
    \/ loop_substep_end
    \/ loop_epoch_end

LoopSpec == LoopInit /\ [][LoopNext]_vars

\* the trainers the end of the loop is followed on: without use_gld, with
\* a baseline only, with one perturbed trial
LoopFairInit ==
    \E use \in BOOLEAN, n \in {0, 1} : ConstructedWith(use, 1, 2, n)

\* the loop is sequential code: the statement it stands at is executed, and
\* every call it makes returns or raises
LoopFairSpec == LoopFairInit /\ [][LoopNext]_vars /\ WF_vars(LoopNext)

\* ------------------------------------------------------------ claims
StepReturned == pc = "idle" /\ last_call = << "gld_step", "returned" >>

\* C1: whenever a do_trial has returned and gld_step is between trials, and
\* when gld_step has returned, every parameter has the value it had when
\* gld_step was entered.
C1_ParamsRestored ==
    (pc = "trials" \/ StepReturned) => data = entry_data

\* a returned step one of whose trials evaluated the loss at parameters
\* other than the ones gld_step was entered with
C1_Witness ==
    /\ StepReturned
    /\ \E j \in 2..Len(eval_data) : eval_data[j] # entry_data

\* C2: the gld_update that follows a gld_step won by a perturbed trial leaves
\* every parameter at the value at which the winning loss was measured (the
\* entry value plus winning scale times the winning trial's direction).
C2_CommitAppliesWinner ==
    [][(StepReturned /\ best_scale # None /\ HostUpdate)
          => data' = eval_data[MinIndex(losses)]]_vars

\* C3: in the training loop with use_gld, whenever gld_step is entered after
\* an earlier gld_step, exactly one gld_update was called in between.
C3_OneUpdatePerStep ==
    [][(lpc = "batch" /\ lpc' = "in_step" /\ step_calls >= 1)
          => updates_since_step = 1]_vars

\* C4: the trial gld_step stores and returns is one no trial of the set
\* compares strictly below, and no trial evaluated before it has its loss
\* (comparison as the code compares losses: nothing is below or above NaN).
C4_WinnerIsFirstMinimum ==
    StepReturned =>
        \E w \in 1..Len(losses) :
            /\ losses[w] = << ret_loss, gld_seed, best_scale >>
            /\ \A j \in 1..Len(losses) : ~LossLt(losses[j][1], ret_loss)
            /\ \A j \in 1..(w - 1) : losses[j][1] # ret_loss

\* a returned step in which two perturbed trials share the lowest loss and
\* the baseline is above them
C4_Witness ==
    /\ StepReturned
    /\ Len(losses) >= 3
    /\ losses[2][1] = losses[3][1]
    /\ LossLt(losses[2][1], losses[1][1])
    /\ best_scale = losses[2][3]
    /\ losses[2][3] # losses[3][3]

\* C5: a gld_update called right after a gld_update that returned raises
\* and changes neither the parameters nor the learning-rate schedule.
C5_SecondUpdateRaises ==
    [][(last_call = << "gld_update", "returned" >> /\ HostUpdate)
          => /\ last_call'[2] # "returned"
             /\ data' = data
             /\ lr_steps' = lr_steps]_vars

\* C6: once gld_update has returned, the stored winning state is the "no
\* winner" sentinel.
C6_WinnerInvalidated ==
    last_call = << "gld_update", "returned" >>
        => gld_seed \in {Unset, None} /\ best_scale \in {Unset, None}

\* C7: gld_update on a trainer on which gld_step never ran fails and changes
\* neither the parameters nor the learning-rate schedule.
C7_UpdateBeforeStepFails ==
    [][(step_calls = 0 /\ HostUpdate)
          => /\ last_call'[1] = "gld_update"
             /\ last_call'[2] \notin {"returned", "none"}
             /\ data' = data
             /\ lr_steps' = lr_steps]_vars

\* gld_update has failed on a trainer on which gld_step never ran
C7_Witness ==
    /\ step_calls = 0
    /\ last_call = << "gld_update", "AttributeError" >>

BaselineStrictlyLowest ==
    \A j \in 2..Len(losses) : LossLt(losses[1][1], losses[j][1])

\* C8: when the baseline loss is strictly lowest in a gld_step, the
\* gld_update that follows leaves every parameter unchanged and advances the
\* learning-rate schedule by one step.
C8_BaselineCommit ==
    [][(StepReturned /\ BaselineStrictlyLowest /\ HostUpdate)
          => /\ data' = data
             /\ lr_steps' = lr_steps + 1
             /\ last_call' = << "gld_update", "returned" >>]_vars

\* gld_update has returned after a step whose perturbed trials, evaluated at
\* other parameters, all lost against the baseline
C8_Witness ==
    /\ last_call = << "gld_update", "returned" >>
    /\ lr_steps = 1
    /\ Len(losses) >= 2
    /\ BaselineStrictlyLowest
    /\ \A j \in 2..Len(eval_data) : eval_data[j] # entry_data
    /\ data = entry_data

\* C9: when the loss evaluation raises during gld_step, the parameters have
\* the values they had when gld_step was entered.
C9_NoMutationOnEvalError ==
    (pc = "idle" /\ last_call = << "gld_step", "EvaluationError" >>)
        => data = entry_data

\* C10: a constructed trainer has max_radius > min_radius and at least one
\* ball sample.
C10_BadConfigRejected ==
    trainer = "ready"
        => max_radius > min_radius /\ Len(search_space) >= 1

\* C11: when perturb_parameters(scale=+k, seed=s) has returned and
\* perturb_parameters(scale=-k, seed=s) is called next, every parameter has
\* afterwards the value it had before the first of the two calls.
C11_PerturbThenUndo ==
    [][\A k \in PerturbScales, s \in Seeds :
          (/\ Len(last_call) = 5
           /\ last_call[1] = "perturb_parameters"
           /\ last_call[3] = k /\ last_call[4] = s
           /\ HostPerturb(-k, s))
          => data' = last_call[5]]_vars

\* an undoing call has returned: it started from parameters two of which
\* were away from their initial values and left all at their initial values
C11_Witness ==
    /\ Len(last_call) = 5
    /\ last_call[1] = "perturb_parameters"
    /\ last_call[3] < 0
    /\ last_call[5] # data
    /\ data = [i \in 1..Len(data) |-> i * Unit]
    /\ \E i \in 1..Len(data), j \in 1..Len(data) :
          i # j /\ last_call[5][i] # data[i] /\ last_call[5][j] # data[j]

\* C12: in the training loop with use_gld, a gld_update that returns advances
\* the learning-rate schedule by exactly one step and global_step by exactly
\* one, and no step of the loop changes one of the two counts without the
\* other: the schedule steps taken since the loop started equal the increase
\* of global_step.
C12_LrFollowsGlobalStep ==
    [][(use_gld /\ lpc # "none")
          => /\ lr_steps' - lr_steps = global_step' - global_step
             /\ (loop_gld_commit /\ UpdateError = "none")
                    => (lr_steps' = lr_steps + 1
                        /\ global_step' = global_step + 1)]_vars

\* two commits of the loop have returned on a trainer that runs perturbed
\* trials
C12_Witness ==
    /\ use_gld /\ lpc # "none"
    /\ Len(search_space) >= 1
    /\ global_step = 2 /\ lr_steps = 2
    /\ last_call = << "gld_update", "returned" >>

\* two reals in fixed point that differ by at most one hundredth
Near(x, y) == x - y <= Unit \div 100 /\ y - x <= Unit \div 100

\* C13: in a returned gld_step of at least two perturbed trials the first
\* perturbed trial has scale max_radius, the last has scale min_radius, and
\* the scales in between run geometrically (each one is the geometric mean
\* of its neighbours), all up to rounding.
C13_ScalesReachMinRadius ==
    (StepReturned /\ Len(losses) >= 3) =>
        /\ Near(losses[2][3], max_radius * Unit)
        /\ Near(losses[Len(losses)][3], min_radius * Unit)
        /\ \A j \in 3..(Len(losses) - 1) :
              Near((losses[j][3] * losses[j][3]) \div Unit,
                   (losses[j - 1][3] * losses[j + 1][3]) \div Unit)

\* space has n entries starting at 0, consecutive entries differ by the same
\* amount (up to the last digit), and logr is ln(maxr / minr): feeding it
\* back through 2 ** (-logr / ln 2) * maxr gives minr
EvenlySpacedFromZero(space, logr, n, minr, maxr) ==
    /\ Len(space) = n
    /\ space[1] = 0
    /\ \A i \in 2..(n - 1) :
          /\ (space[i + 1] - space[i]) - (space[i] - space[i - 1]) <= 1
          /\ (space[i] - space[i - 1]) - (space[i + 1] - space[i]) <= 1
    /\ Near(Pow2Neg((logr * Unit) \div Ln2) * maxr, minr * Unit)

\* C14 as stated: a constructor call with num_ball_samples >= 1 that returns
\* leaves num_ball_samples evenly spaced entries, the first 0 and the last
\* ln(max_radius / min_radius); no step after construction changes them.
C14_LastEntryIsLogRadius ==
    [][/\ trainer = "absent" =>
            \A use \in BOOLEAN, minr \in 0..MaxRadius, maxr \in 0..MaxRadius,
               n \in 1..MaxBallSamples :
            (GLDTrainer_init(use, minr, maxr, n) /\ trainer' = "ready")
            => /\ EvenlySpacedFromZero(search_space', log_radius', n, minr,
                                       maxr)
               /\ search_space'[n] = log_radius'
       /\ trainer = "ready" => search_space' = search_space]_vars

\* C14 amended: a constructor call with num_ball_samples >= 1 that returns
\* leaves num_ball_samples evenly spaced entries, the first 0, and the last
\* ln(max_radius / min_radius) when num_ball_samples >= 2 (the only entry
\* for num_ball_samples = 1 is 0); no step after construction changes them.
C14_SearchSpaceShape ==
    [][/\ trainer = "absent" =>
            \A use \in BOOLEAN, minr \in 0..MaxRadius, maxr \in 0..MaxRadius,
               n \in 1..MaxBallSamples :
            (GLDTrainer_init(use, minr, maxr, n) /\ trainer' = "ready")
            => /\ EvenlySpacedFromZero(search_space', log_radius', n, minr,
                                       maxr)
               /\ n >= 2 => search_space'[n] = log_radius'
       /\ trainer = "ready" => search_space' = search_space]_vars

\* a trainer of three ball samples and different radii on which
\* perturb_parameters has moved the parameters
C14_Witness ==
    /\ trainer = "ready"
    /\ Len(search_space) = 3
    /\ log_radius # 0
    /\ search_space[3] = log_radius
    /\ data # [i \in 1..Len(data) |-> i * Unit]

C17_WinningStateStored ==
    StepReturned =>
        LET w == MinIndex(losses)
        IN /\ gld_seed = losses[w][2]
           /\ best_scale = losses[w][3]
           /\ ret_loss = losses[w][1]
           /\ (best_scale = None) <=> (w = 1)

\* a returned step won by a perturbed trial that is not the last one, the
\* last one having another seed and another scale
C17_Witness ==
    /\ StepReturned
    /\ Len(losses) >= 3
    /\ MinIndex(losses) = 2
    /\ losses[Len(losses)][2] # gld_seed
    /\ losses[Len(losses)][3] # best_scale
    /\ best_scale # None

\* C18: the gld_update that follows a gld_step won by a perturbed trial
\* leaves every parameter with requires_grad false at its value, sweeps the
\* list perturb_parameters sweeps, and leaves every trainable parameter at
\* the value perturb_parameters gave it in the winning trial.
C18_CommitSweepsTrainableOnly ==
    [][(StepReturned /\ best_scale # None /\ HostUpdate)
          => /\ \A i \in 1..Len(data) :
                  ~requires_grad[i] => data'[i] = data[i]
             /\ UpdateSweepList = named_parameters_to_optim
             /\ \A i \in 1..Len(data) :
                  requires_grad[i]
                  => data'[i] = perturb_parameters(data, torch_rng,
                                    named_parameters_to_optim, best_scale,
                                    gld_seed)[1][i]]_vars

\* gld_step has returned (gld_update may have been called since)
StepCompleted == pc = "idle" /\ ret_loss # Unset

AllNonFinite ==
    \A j \in 1..Len(losses) : losses[j][1] \in {NaN, PosInf, NegInf}

\* C19 as stated: after a gld_step all of whose losses are non-finite, the
\* baseline is the stored winner, and the commit that follows returns with
\* every parameter at the value it had when the step was entered.
C19_NonFiniteKeepsBaseline ==
    (StepCompleted /\ AllNonFinite) =>
        /\ best_scale = None
        /\ ret_loss = losses[1][1]
        /\ data = entry_data
        /\ last_call[2] = "returned"

\* C19 amended: the same, unless the baseline loss is +infinity and the
\* loss of some perturbed trial is -infinity.
C19_NonFiniteKeepsBaselineUnlessNegInf ==
    (/\ StepCompleted /\ AllNonFinite
     /\ ~(/\ losses[1][1] = PosInf
          /\ \E j \in 2..Len(losses) : losses[j][1] = NegInf)) =>
        /\ best_scale = None
        /\ ret_loss = losses[1][1]
        /\ data = entry_data
        /\ last_call[2] = "returned"

\* the commit has returned after a step whose baseline loss was NaN and one
\* of whose perturbed trials had the loss -infinity
C19_Witness ==
    /\ StepCompleted /\ AllNonFinite
    /\ losses[1][1] = NaN
    /\ \E j \in 2..Len(losses) : losses[j][1] = NegInf
    /\ last_call = << "gld_update", "returned" >>
    /\ lr_steps >= 1

\* C20: the baseline forward pass of gld_step, which is one call of
\* gld_forward, leaves every parameter and the model's training flag as
\* they were before the call.
C20_ForwardKeepsMode ==
    [][(pc = "baseline" /\ pc' = "trials")
          => (data' = data /\ model_training' = model_training)]_vars

\* C21: in the training loop every gld_update runs on the seed and the scale
\* of the trial that won the most recent gld_step (it seeds the stream with
\* that seed), and a gld_step entered after a step that was not committed
\* finds every parameter at the value that step was entered with.
C21_CommitUsesLatestWinner ==
    [][/\ loop_gld_commit =>
            LET w == MinIndex(losses)
            IN /\ gld_seed = losses[w][2]
               /\ best_scale = losses[w][3]
               /\ torch_rng' = << losses[w][2], 0 >>
               /\ data = entry_data
               /\ best_scale = None => data' = data
       /\ (/\ lpc = "batch" /\ lpc' = "in_step"
           /\ step_calls >= 1 /\ updates_since_step = 0)
          => data = entry_data]_vars

\* the commit that ended an accumulation window of two steps has returned
\* on a trainer that runs perturbed trials: the first step of the window
\* was not committed
C21_Witness ==
    /\ use_gld /\ gradient_accumulation_steps = 2
    /\ Len(search_space) >= 1
    /\ step_calls = 2 /\ global_step = 1
    /\ last_call = << "gld_update", "returned" >>
    /\ data = entry_data

\* C22: while the training loop runs, with use_gld no step of the loop
\* changes the counts of training_step calls and of optimizer blocks
\* (clipping, optimizer.step, model.zero_grad), without use_gld no step
\* enters gld_step or calls gld_update, and in both modes global_step goes
\* up by one when a batch completes an accumulation window and is left
\* alone by every other step.
C22_ModesExclusive ==
    [][lpc # "none" =>
         /\ use_gld => (train_calls' = train_calls
                        /\ optimizer_steps' = optimizer_steps)
         /\ ~use_gld => (/\ step_calls' = step_calls
                         /\ updates_since_step' = updates_since_step
                         /\ pc' = "idle"
                         /\ last_call' = last_call)
         /\ (LoopStepDone /\ AccumulationBoundary /\ lpc' # "raised")
               => global_step' = global_step + 1
         /\ ~(LoopStepDone /\ AccumulationBoundary /\ lpc' # "raised")
               => global_step' = global_step]_vars

\* without use_gld a window of two batches has been completed: two calls of
\* training_step, one optimizer block, no call of the core
C22_Witness ==
    /\ ~use_gld /\ lpc # "none"
    /\ gradient_accumulation_steps = 2
    /\ train_calls = 2 /\ optimizer_steps = 1 /\ global_step = 1
    /\ step_calls = 0 /\ last_call = << "__init__", "returned" >>

\* the loop has returned, or an exception of the core has left it
LoopEnded == lpc \in {"done", "raised"}

\* C23: the training loop ends. From a state in which should_training_stop
\* is set no step of the loop processes a batch (no training_step, gld_step
\* or gld_update, no schedule step); an epoch without a batch is the last
\* one and sets should_training_stop; and a loop that returned without
\* should_training_stop has run num_train_epochs epochs.
C23_LoopTerminates ==
    /\ [][/\ should_training_stop =>
               /\ step_calls' = step_calls
               /\ train_calls' = train_calls
               /\ updates_since_step' = updates_since_step
               /\ lr_steps' = lr_steps
               /\ optimizer_steps' = optimizer_steps
               /\ lpc' \in {"epoch_end", "done"}
          /\ (lpc = "epoch_end" /\ step < 0) =>
               (lpc' = "done" /\ should_training_stop')]_vars
    /\ [](lpc = "done" =>
            (should_training_stop \/ epoch = num_train_epochs))
    /\ <>LoopEnded

\* the loop has returned because a callback set should_training_stop: a
\* batch of the epoch and a later epoch were left unprocessed
C23_Witness ==
    /\ lpc = "done"
    /\ should_training_stop
    /\ epoch + 1 < num_train_epochs
    /\ step >= 0
    /\ step + 1 < len_dataloader
    /\ global_step >= 1
====
